---- MODULE Spec2Model ----
(***************************************************************************)
(* rust_brain: a brainfuck lexer, coalescing parser and single-pass x86-64 *)
(* JIT compiler (src/src/main.rs, src/src/x86_jit.rs).                     *)
(*                                                                         *)
(* Bytes of the source are one-character strings; bytes of the generated   *)
(* code are integers 0..255.  Option<T> is a sequence of length <= 1.      *)
(***************************************************************************)
EXTENDS Integers, Sequences, FiniteSets, TLC

VARIABLES
    source,         \* the bytes the Read stream yields (Lexer.source)
    pos,            \* how many bytes of the stream have been read
    location,       \* Lexer.location
    peeked_token,   \* Lexer.peeked_token
    lastOp,         \* observation: the last lexer operation called
    lastArg,        \* observation: its argument (chop_while's token char)
    lastRet,        \* observation: what it returned
    prevLexer,      \* observation: the lexer state before that call
    chopped,        \* observation: the tokens returned by chop, in order
    pc,             \* where main is: the stage that runs next
    forward_jumps,  \* Parser.forward_jumps
    program,        \* Parser.program
    cw_token,       \* the token parse_instruction passed to chop_while
    cw_count,       \* chop_while's count while its loop runs
    error,          \* the Err that main returned, if any
    jit_program,    \* JitCompiler.program, once the JitCompiler is built
    code,           \* X86Assembler.code
    jit_forward_jumps, \* the local forward_jumps of JitCompiler::compile
    ip,             \* the loop index i of JitCompiler::compile
    starts,         \* observation: position() at the start of each iteration
    mapped,         \* what memory_map_executable_code returned to run, if called
    asm_last,       \* observation: the last X86Assembler call and the buffer before it
    overflow_checks,\* whether the build panics on integer overflow (debug profile)
    interp_program, \* Intepreter.program, once the Intepreter is built
    memory,         \* Intepreter.memory: the cells the cursor bound lets it reach
    addr,           \* Intepreter.addr; a negative value is a usize that wrapped
    instruction_ptr,\* Intepreter.instruction_ptr
    output,         \* the bytes written to standard output, in order
    steps,          \* observation: loop iterations of run so far, saturating
    rerun           \* observation: repeated calls made, and what the call before left

lexvars == <<source, pos, location, peeked_token>>
obsvars == <<lastOp, lastArg, lastRet, prevLexer, chopped>>
parservars == <<forward_jumps, program, cw_token, cw_count>>
jitvars == <<jit_program, code, jit_forward_jumps, ip, starts>>
interpvars == <<overflow_checks, interp_program, memory, addr, instruction_ptr, output, steps>>
extvars == <<mapped, asm_last, interpvars, rerun>>
vars == <<lexvars, obsvars, pc, parservars, error, jitvars, extvars>>

(***************************************************************************)
(* Bounds                                                                  *)
(***************************************************************************)
MaxLexLen == 5
MaxSrcLen == 4
MaxRun == 257
MaxAsmCalls == 3
MaxInterpLen == 3
MaxTail == 2
MaxCells == 3
MaxSteps == 4
MaxOut == 3
MaxRerunLen == 3
MaxCalls == 1

(***************************************************************************)
(* Lexer                                                                   *)
(***************************************************************************)
None == <<>>
Some(x) == <<x>>
IsSome(o) == Len(o) = 1
Unwrap(o) == o[1]

NewLine == "\n"

\* Location::default
DefaultLocation == [line |-> 1, column |-> 1]

\* Lexer::new
LexerNew == [pos |-> 0, location |-> DefaultLocation, peeked_token |-> None]

\* Lexer::is_char_in_language
is_char_in_language(candidate) == candidate \in {"<", ">", "+", "-", ".", ",", "[", "]"}

\* The update of self.location after one byte has been read (chop, lines 86-90)
MutAdvance(loc, b) ==
    IF b = NewLine THEN [line |-> loc.line + 1, column |-> loc.column]
                   ELSE [line |-> loc.line, column |-> loc.column + 1]
Advance(loc, b) ==
    IF b = NewLine THEN [line |-> loc.line + 1, column |-> 1]
                   ELSE [line |-> loc.line, column |-> loc.column + 1]

\* The read loop of Lexer::chop (lines 75-96): read one byte at a time until
\* one is in the language; a read of 0 bytes is the end of the input.
RECURSIVE ChopScan(_, _)
ChopScan(src, lx) ==
    IF lx.pos >= Len(src)
    THEN [lx |-> lx, ret |-> None]
    ELSE LET b == src[lx.pos + 1]
             nx == [lx EXCEPT !.pos = lx.pos + 1,
                              !.location = Advance(lx.location, b)]
         IN IF is_char_in_language(b)
            THEN [lx |-> nx, ret |-> Some([char |-> b, location |-> lx.location])]
            ELSE ChopScan(src, nx)

\* Lexer::chop
MutChopDropsPeeked(src, lx) == ChopScan(src, [lx EXCEPT !.peeked_token = None])
Chop(src, lx) ==
    IF IsSome(lx.peeked_token)
    THEN [lx |-> [lx EXCEPT !.peeked_token = None], ret |-> lx.peeked_token]
    ELSE ChopScan(src, lx)

\* Lexer::peek
MutPeekAlwaysReads(src, lx) ==
    LET r == ChopScan(src, lx)
    IN [lx |-> [r.lx EXCEPT !.peeked_token = r.ret], ret |-> r.ret]
Peek(src, lx) ==
    IF IsSome(lx.peeked_token)
    THEN [lx |-> lx, ret |-> lx.peeked_token]
    ELSE LET r == Chop(src, lx)
         IN [lx |-> [r.lx EXCEPT !.peeked_token = r.ret], ret |-> r.ret]

\* One iteration of the loop of Lexer::chop_while: peek, and chop the token
\* if its character is the wanted one; `eaten` is what that chop returned
ChopWhileIter(src, lx, ch) ==
    LET p == Peek(src, lx)
    IN IF IsSome(p.ret) /\ Unwrap(p.ret).char = ch
       THEN LET c == Chop(src, p.lx)
            IN [lx |-> c.lx, more |-> TRUE, eaten |-> c.ret]
       ELSE [lx |-> p.lx, more |-> FALSE, eaten |-> <<>>]

\* Lexer::chop_while, its loop run to the end
RECURSIVE ChopWhileLoop(_, _, _, _, _)
ChopWhileLoop(src, lx, ch, count, eaten) ==
    LET it == ChopWhileIter(src, lx, ch)
    IN IF it.more
       THEN ChopWhileLoop(src, it.lx, ch, count + 1, eaten \o it.eaten)
       ELSE [lx |-> it.lx, ret |-> count, eaten |-> eaten]

MutChopWhileEatsMismatch(src, lx, ch) ==
    LET r == ChopWhileLoop(src, lx, ch, 0, <<>>)
        c == Chop(src, r.lx)
    IN [lx |-> c.lx, ret |-> r.ret, eaten |-> r.eaten \o c.ret]
ChopWhile(src, lx, ch) == ChopWhileLoop(src, lx, ch, 0, <<>>)

(***************************************************************************)
(* A Lexer driven by any interleaving of peek, chop and chop_while         *)
(***************************************************************************)
LexBytes == {"+", "]", NewLine, " "}
LexArgs == {"+", "]", "."}

RECURSIVE SeqsUpTo(_, _)
SeqsUpTo(S, n) ==
    IF n = 0 THEN {<<>>}
    ELSE LET shorter == SeqsUpTo(S, n - 1)
         IN shorter \cup {Append(s, b) : s \in {t \in shorter : Len(t) = n - 1}, b \in S}

TheLexer == [pos |-> pos, location |-> location, peeked_token |-> peeked_token]

\* Before any X86Assembler call of interest, memory mapping or Intepreter
NoAsmCall ==
    [op |-> "default", p |-> 0, t |-> 0, args |-> <<>>, before |-> <<>>, calls |-> 0]

NoRerun == [parses |-> 0, compiles |-> 0, parser |-> <<>>, error |-> <<>>, code |-> <<>>]

NotYetRun ==
    /\ mapped = None
    /\ rerun = NoRerun
    /\ asm_last = NoAsmCall
    /\ interp_program = None
    /\ memory = <<>>
    /\ addr = 0
    /\ instruction_ptr = 0
    /\ output = <<>>
    /\ steps = 0

LexInit ==
    /\ source \in SeqsUpTo(LexBytes, MaxLexLen)
    /\ pos = LexerNew.pos
    /\ location = LexerNew.location
    /\ peeked_token = LexerNew.peeked_token
    /\ lastOp = "new"
    /\ lastArg = ""
    /\ lastRet = None
    /\ prevLexer = LexerNew
    /\ chopped = <<>>
    /\ pc = "lexer"
    /\ overflow_checks = FALSE
    /\ NotYetRun
    /\ forward_jumps = <<>>
    /\ program = <<>>
    /\ cw_token = None
    /\ cw_count = 0
    /\ error = None
    /\ jit_program = None
    /\ code = <<>>
    /\ jit_forward_jumps = <<>>
    /\ ip = 0
    /\ starts = <<>>

SetLexer(lx) ==
    /\ pos' = lx.pos
    /\ location' = lx.location
    /\ peeked_token' = lx.peeked_token
    /\ UNCHANGED source

CallPeek ==
    LET r == Peek(source, TheLexer)
    IN /\ SetLexer(r.lx)
       /\ lastOp' = "peek"
       /\ lastArg' = ""
       /\ lastRet' = r.ret
       /\ prevLexer' = TheLexer
       /\ UNCHANGED <<chopped, pc, parservars, error, jitvars, extvars>>

CallChop ==
    LET r == Chop(source, TheLexer)
    IN /\ SetLexer(r.lx)
       /\ lastOp' = "chop"
       /\ lastArg' = ""
       /\ lastRet' = r.ret
       /\ prevLexer' = TheLexer
       /\ chopped' = chopped \o r.ret
       /\ UNCHANGED <<pc, parservars, error, jitvars, extvars>>

CallChopWhile ==
    \E ch \in LexArgs :
        LET r == ChopWhile(source, TheLexer, ch)
        IN /\ SetLexer(r.lx)
           /\ lastOp' = "chop_while"
           /\ lastArg' = ch
           /\ lastRet' = Some(r.ret)
           /\ prevLexer' = TheLexer
           /\ chopped' = chopped \o r.eaten
           /\ UNCHANGED <<pc, parservars, error, jitvars, extvars>>

LexNext == CallPeek \/ CallChop \/ CallChopWhile

SpecLexer == LexInit /\ [][LexNext]_vars

(***************************************************************************)
(* Parser                                                                  *)
(***************************************************************************)
Ok(v) == [ok |-> TRUE, val |-> v]
Err(e) == [ok |-> FALSE, val |-> e]

\* enum Instruction
Instr(op, n) == [op |-> op, n |-> n]

\* program[idx]: Rust indexes a Program from 0
At(P, idx) == P[idx + 1]

\* Parser::default
ParserDefault == [forward_jumps |-> <<>>, program |-> <<>>]

\* The modulus that folds the run length of + and - into a u8
FoldModulus == 255

\* ((1 + lexer.chop_while(token)?) % 255) as u8
MutFoldCount(n) == n % 256
FoldCount(n) == n % FoldModulus

\* The Instruction kind of each counted operator (parse_instruction's arms)
CountedOp(ch) ==
    CASE ch = "<" -> "AddrLeft"
      [] ch = ">" -> "AddrRight"
      [] ch = "+" -> "Inc"
      [] ch = "-" -> "Dec"
      [] ch = "." -> "Output"
      [] ch = "," -> "Input"

\* parse_instruction, the arms of < > + - . , once chop_while has returned
\* count: the Instruction they build
MutCountedInstrDropsFirst(ch, count) ==
    Instr(CountedOp(ch), IF ch \in {"+", "-"} THEN FoldCount(count) ELSE count)
CountedInstr(ch, count) ==
    Instr(CountedOp(ch), IF ch \in {"+", "-"} THEN FoldCount(1 + count) ELSE 1 + count)

\* parse_instruction, the arm of [
MutParseOpenerGuessesTarget(lx, parser) ==
    [lx |-> lx,
     parser |-> [parser EXCEPT !.forward_jumps = Append(@, Len(parser.program))],
     ret |-> Ok(Instr("JmpForward", Len(parser.program) + 1))]
ParseOpener(lx, parser) ==
    [lx |-> lx,
     parser |-> [parser EXCEPT !.forward_jumps = Append(@, Len(parser.program))],
     ret |-> Ok(Instr("JmpForward", 0))]

\* parse_instruction, the arm of ]; program[target] is the Rust (0-based) index
MutParseCloserTargetsOpener(lx, parser, token) ==
    IF parser.forward_jumps # <<>>
    THEN LET target == parser.forward_jumps[Len(parser.forward_jumps)]
         IN [lx |-> lx,
             parser |-> [forward_jumps |-> SubSeq(parser.forward_jumps, 1,
                                                  Len(parser.forward_jumps) - 1),
                         program |-> [parser.program EXCEPT ![target + 1] =
                                         Instr("JmpForward", Len(parser.program) + 1)]],
             ret |-> Ok(Instr("JmpBack", target))]
    ELSE [lx |-> lx, parser |-> parser,
          ret |-> Err([kind |-> "no corresponding forward jump",
                       line |-> token.location.line,
                       column |-> token.location.column])]
MutParseCloserReportsLexerLocation(lx, parser, token) ==
    IF parser.forward_jumps # <<>>
    THEN LET target == parser.forward_jumps[Len(parser.forward_jumps)]
         IN [lx |-> lx,
             parser |-> [forward_jumps |-> SubSeq(parser.forward_jumps, 1,
                                                  Len(parser.forward_jumps) - 1),
                         program |-> [parser.program EXCEPT ![target + 1] =
                                         Instr("JmpForward", Len(parser.program) + 1)]],
             ret |-> Ok(Instr("JmpBack", target + 1))]
    ELSE [lx |-> lx, parser |-> parser,
          ret |-> Err([kind |-> "no corresponding forward jump",
                       line |-> lx.location.line,
                       column |-> lx.location.column])]
ParseCloser(lx, parser, token) ==
    IF parser.forward_jumps # <<>>
    THEN LET target == parser.forward_jumps[Len(parser.forward_jumps)]
         IN [lx |-> lx,
             parser |-> [forward_jumps |-> SubSeq(parser.forward_jumps, 1,
                                                  Len(parser.forward_jumps) - 1),
                         program |-> [parser.program EXCEPT ![target + 1] =
                                         Instr("JmpForward", Len(parser.program) + 1)]],
             ret |-> Ok(Instr("JmpBack", target + 1))]
    ELSE [lx |-> lx, parser |-> parser,
          ret |-> Err([kind |-> "no corresponding forward jump",
                       line |-> token.location.line,
                       column |-> token.location.column])]

(***************************************************************************)
(* X86Assembler: every emitter maps the code buffer to the extended buffer *)
(***************************************************************************)
RAX == 0
RDI == 7
RSI == 6
RDX == 2

\* enum Operand
Register(r) == [kind |-> "Register", a |-> r, b |-> 0]
Immediate(v) == [kind |-> "Immediate", a |-> v, b |-> 0]
Immediate8(v) == [kind |-> "Immediate8", a |-> v, b |-> 0]
MemoryByRegister(r) == [kind |-> "MemoryByRegister", a |-> r, b |-> 0]
MemoryByRegisterAndOffset(r, o) == [kind |-> "MemoryByRegisterAndOffset", a |-> r, b |-> o]

\* a | b on unsigned integers
RECURSIVE BitOr(_, _)
BitOr(a, b) ==
    IF a = 0 THEN b
    ELSE IF b = 0 THEN a
    ELSE (IF a % 2 = 1 \/ b % 2 = 1 THEN 1 ELSE 0) + 2 * BitOr(a \div 2, b \div 2)

\* (r << 3) on a u8: the bits shifted out are lost
Shl3(r) == (r * 8) % 256

\* (v & 0xFF), ((v >> 8) & 0xFF), ((v >> 16) & 0xFF), ((v >> 24) & 0xFF)
ImmBytes(v) ==
    <<v % 256, (v \div 256) % 256, (v \div 65536) % 256, (v \div 16777216) % 256>>

\* `x as i32` of a usize: every offset and target of the model is below 2^31,
\* where the cast keeps the value and the i32 subtraction cannot overflow
AsI32(x) == x
SubI32(a, b) == a - b

\* i32::to_le_bytes: the two's complement bytes, low byte first (\div rounds
\* down and % is never negative, so a negative v yields the bytes of 2^32 + v)
ToLeBytes(v) ==
    <<v % 256, (v \div 256) % 256, (v \div 65536) % 256, (v \div 16777216) % 256>>

\* X86Assembler::position
position(c) == Len(c)

\* X86Assembler::emit
MutEmitPrepends(c, bytes) == bytes \o c
emit(c, bytes) == c \o bytes

\* X86Assembler::clear
MutClearKeeps(c) == c
clear(c) == <<>>

\* X86Assembler::emit_movzx
emit_movzx(c, dst, src) ==
    CASE dst.kind = "Register" /\ src.kind = "MemoryByRegisterAndOffset" ->
            emit(c, <<15, 182, 4, BitOr(BitOr(Shl3(dst.a), src.a), src.b)>>)

\* X86Assembler::emit_mov
emit_mov(c, dst, src) ==
    CASE dst.kind = "Register" /\ src.kind = "MemoryByRegister" ->
            emit(c, <<72, 139, BitOr(Shl3(dst.a), src.a)>>)
      [] dst.kind = "Register" /\ src.kind = "Immediate" ->
            emit(c, <<72, 199, BitOr(192, dst.a)>> \o ImmBytes(src.a))
      [] dst.kind = "MemoryByRegister" /\ src.kind = "Register" ->
            emit(c, <<72, 137, BitOr(Shl3(src.a), dst.a)>>)
      [] dst.kind = "Register" /\ src.kind = "MemoryByRegisterAndOffset" ->
            emit(c, <<72, 139, BitOr(4, Shl3(dst.a)), BitOr(Shl3(src.b), src.a)>>)
      [] dst.kind = "Register" /\ src.kind = "Register" ->
            emit(c, <<72, 137, BitOr(192, BitOr(Shl3(src.a), dst.a))>>)

\* X86Assembler::emit_add
emit_add(c, dst, src) ==
    CASE dst.kind = "Register" /\ src.kind = "Immediate8" ->
            emit(c, <<72, 131, BitOr(192, dst.a), src.a>>)
      [] dst.kind = "Register" /\ src.kind = "Immediate" ->
            emit(c, <<72, 129, BitOr(192, dst.a)>> \o ImmBytes(src.a))
      [] dst.kind = "MemoryByRegisterAndOffset" /\ src.kind = "Immediate8" ->
            emit(c, <<128, 4, BitOr(Shl3(dst.a), dst.b), src.a>>)
      [] dst.kind = "Register" /\ src.kind = "Register" ->
            emit(c, <<72, 1, BitOr(192, BitOr(Shl3(src.a), dst.a))>>)

\* X86Assembler::emit_sub
emit_sub(c, dst, src) ==
    CASE dst.kind = "Register" /\ src.kind = "Immediate8" ->
            emit(c, <<72, 131, BitOr(232, dst.a), src.a>>)
      [] dst.kind = "Register" /\ src.kind = "Immediate" ->
            emit(c, <<72, 129, BitOr(232, dst.a)>> \o ImmBytes(src.a))
      [] dst.kind = "MemoryByRegisterAndOffset" /\ src.kind = "Immediate8" ->
            emit(c, <<128, 44, BitOr(Shl3(dst.a), dst.b), src.a>>)

\* X86Assembler::emit_push
emit_push(c, src) ==
    CASE src.kind = "Register" -> emit(c, <<BitOr(80, src.a)>>)

\* X86Assembler::emit_pop
emit_pop(c, dst) ==
    CASE dst.kind = "Register" -> emit(c, <<BitOr(88, dst.a)>>)

\* X86Assembler::emit_compare
emit_compare(c, dst, src) ==
    CASE dst.kind = "Register" /\ src.kind = "Immediate8" ->
            emit(c, <<72, 131, BitOr(248, dst.a), src.a>>)

\* X86Assembler::emit_jump_if_zero
MutJeRelativeToStart(c, target) ==
    LET src_pos == AsI32(position(c))
        relative_target == SubI32(AsI32(target), src_pos)
    IN emit(emit(c, <<15, 132>>), ToLeBytes(relative_target))
emit_jump_if_zero(c, target) ==
    LET src_pos == AsI32(position(c) + 6)
        relative_target == SubI32(AsI32(target), src_pos)
    IN emit(emit(c, <<15, 132>>), ToLeBytes(relative_target))

\* X86Assembler::emit_jump_if_non_zero
MutJneRelativeToStart(c, target) ==
    LET src_pos == AsI32(position(c))
        relative_target == SubI32(AsI32(target), src_pos)
    IN emit(emit(c, <<15, 133>>), ToLeBytes(relative_target))
emit_jump_if_non_zero(c, target) ==
    LET src_pos == AsI32(position(c) + 6)
        relative_target == SubI32(AsI32(target), src_pos)
    IN emit(emit(c, <<15, 133>>), ToLeBytes(relative_target))

\* X86Assembler::patch_jump_target: code[patch_target_pos - 4..patch_target_pos]
MutPatchRelativeToSlot(c, patch_target_pos, new_target) ==
    LET relative_target == SubI32(AsI32(new_target), AsI32(patch_target_pos - 4))
        le == ToLeBytes(relative_target)
    IN [k \in 1..Len(c) |->
           IF k - 1 \in (patch_target_pos - 4)..(patch_target_pos - 1)
           THEN le[k - (patch_target_pos - 4)]
           ELSE c[k]]
MutPatchBigEndian(c, patch_target_pos, new_target) ==
    LET relative_target == SubI32(AsI32(new_target), AsI32(patch_target_pos))
        le == ToLeBytes(relative_target)
    IN [k \in 1..Len(c) |->
           IF k - 1 \in (patch_target_pos - 4)..(patch_target_pos - 1)
           THEN le[5 - (k - (patch_target_pos - 4))]
           ELSE c[k]]
patch_jump_target(c, patch_target_pos, new_target) ==
    LET relative_target == SubI32(AsI32(new_target), AsI32(patch_target_pos))
        le == ToLeBytes(relative_target)
    IN [k \in 1..Len(c) |->
           IF k - 1 \in (patch_target_pos - 4)..(patch_target_pos - 1)
           THEN le[k - (patch_target_pos - 4)]
           ELSE c[k]]

\* X86Assembler::emit_syscall
emit_syscall(c) == emit(c, <<15, 5>>)

\* X86Assembler::emit_return
MutEmitReturnTwice(c) == emit(c, <<195, 195>>)
emit_return(c) == emit(c, <<195>>)

(***************************************************************************)
(* The X86Assembler on its own: any sequence of up to MaxAsmCalls calls of *)
(* its jump emitters, emit_return, patch_jump_target and clear on one      *)
(* buffer, with the last call and the buffer before it observed.           *)
(***************************************************************************)
\* Code offsets passed as jump targets: behind, at and far ahead of the jump
AsmTargets == {0, 6, 300}
\* Offsets passed as patch_target_pos: before the first possible slot, the
\* ends of the first and second jump, and offsets one past them
AsmPositions == {3, 4, 6, 7, 12}

AsmInit ==
    /\ source = <<>>
    /\ pos = LexerNew.pos
    /\ location = LexerNew.location
    /\ peeked_token = LexerNew.peeked_token
    /\ lastOp = "new"
    /\ lastArg = ""
    /\ lastRet = None
    /\ prevLexer = LexerNew
    /\ chopped = <<>>
    /\ pc = "asm"
    /\ overflow_checks = FALSE
    /\ NotYetRun
    /\ forward_jumps = <<>>
    /\ program = <<>>
    /\ cw_token = None
    /\ cw_count = 0
    /\ error = None
    /\ jit_program = None
    /\ code = <<>>
    /\ jit_forward_jumps = <<>>
    /\ ip = 0
    /\ starts = <<>>

\* The frame of every assembler call: only the buffer and the observation move
AsmCall(op, p, t) ==
    /\ pc = "asm"
    /\ asm_last.calls < MaxAsmCalls
    /\ asm_last' = [op |-> op, p |-> p, t |-> t, args |-> <<>>, before |-> code,
                    calls |-> asm_last.calls + 1]
    /\ UNCHANGED <<lexvars, obsvars, parservars, error, jit_program,
                   jit_forward_jumps, ip, starts, mapped, interpvars, rerun>>

AsmEmitJumpIfZero ==
    \E t \in AsmTargets :
        /\ AsmCall("emit_jump_if_zero", 0, t)
        /\ code' = emit_jump_if_zero(code, t)
        /\ UNCHANGED pc

AsmEmitJumpIfNonZero ==
    \E t \in AsmTargets :
        /\ AsmCall("emit_jump_if_non_zero", 0, t)
        /\ code' = emit_jump_if_non_zero(code, t)
        /\ UNCHANGED pc

AsmEmitReturn ==
    /\ AsmCall("emit_return", 0, 0)
    /\ code' = emit_return(code)
    /\ UNCHANGED pc

AsmClear ==
    /\ AsmCall("clear", 0, 0)
    /\ code' = clear(code)
    /\ UNCHANGED pc

\* patch_jump_target; the slice code[p - 4..p] panics when p - 4 underflows
\* or p is beyond the end of the buffer
AsmPatchJumpTarget ==
    \E p \in AsmPositions, t \in AsmTargets :
        /\ AsmCall("patch_jump_target", p, t)
        /\ IF p < 4 \/ p > Len(code)
           THEN pc' = "panic" /\ UNCHANGED code
           ELSE code' = patch_jump_target(code, p, t) /\ UNCHANGED pc

AsmNext ==
    \/ AsmEmitJumpIfZero
    \/ AsmEmitJumpIfNonZero
    \/ AsmEmitReturn
    \/ AsmClear
    \/ AsmPatchJumpTarget

SpecAsm == AsmInit /\ [][AsmNext]_vars


(***************************************************************************)
(* One X86Assembler call of any kind, with operands of every form the      *)
(* emitter implements, on a buffer that earlier calls have filled          *)
(***************************************************************************)
Regs == {RAX, RDX, RSI, RDI}
Imm8s == {0, 1, 254}
Imm32s == {1, 300, 70000}

\* Buffers of 0, 1, 6 and 13 bytes
StartBuffers ==
    {<<>>,
     emit_return(<<>>),
     emit_jump_if_zero(<<>>, 300),
     emit_return(emit_jump_if_non_zero(emit_jump_if_zero(<<>>, 0), 6))}

MovzxForms ==
    {<<Register(d), MemoryByRegisterAndOffset(b, o)>> : d \in Regs, b \in Regs, o \in Regs}
MovForms ==
    {<<Register(d), MemoryByRegister(r)>> : d \in Regs, r \in Regs}
        \cup {<<Register(d), Immediate(v)>> : d \in Regs, v \in Imm32s}
        \cup {<<MemoryByRegister(d), Register(r)>> : d \in Regs, r \in Regs}
        \cup {<<Register(d), MemoryByRegisterAndOffset(b, RAX)>> : d \in Regs, b \in Regs}
        \cup {<<Register(d), Register(r)>> : d \in Regs, r \in Regs}
AddForms ==
    {<<Register(d), Immediate8(v)>> : d \in Regs, v \in Imm8s}
        \cup {<<Register(d), Immediate(v)>> : d \in Regs, v \in Imm32s}
        \cup {<<MemoryByRegisterAndOffset(b, RAX), Immediate8(v)>> : b \in Regs, v \in Imm8s}
        \cup {<<Register(d), Register(r)>> : d \in Regs, r \in Regs}
SubForms ==
    {<<Register(d), Immediate8(v)>> : d \in Regs, v \in Imm8s}
        \cup {<<Register(d), Immediate(v)>> : d \in Regs, v \in Imm32s}
        \cup {<<MemoryByRegisterAndOffset(b, RAX), Immediate8(v)>> : b \in Regs, v \in Imm8s}
CompareForms == {<<Register(d), Immediate8(v)>> : d \in Regs, v \in Imm8s}

EncInit ==
    /\ source = <<>>
    /\ pos = LexerNew.pos
    /\ location = LexerNew.location
    /\ peeked_token = LexerNew.peeked_token
    /\ lastOp = "new"
    /\ lastArg = ""
    /\ lastRet = None
    /\ prevLexer = LexerNew
    /\ chopped = <<>>
    /\ pc = "encode"
    /\ overflow_checks = FALSE
    /\ NotYetRun
    /\ forward_jumps = <<>>
    /\ program = <<>>
    /\ cw_token = None
    /\ cw_count = 0
    /\ error = None
    /\ jit_program = None
    /\ code \in StartBuffers
    /\ jit_forward_jumps = <<>>
    /\ ip = 0
    /\ starts = <<>>

\* The frame of the one call: the buffer, the observation and pc move
EncCall(op, p, t, args) ==
    /\ pc = "encode"
    /\ asm_last' = [op |-> op, p |-> p, t |-> t, args |-> args, before |-> code,
                    calls |-> asm_last.calls + 1]
    /\ UNCHANGED <<lexvars, obsvars, parservars, error, jit_program,
                   jit_forward_jumps, ip, starts, mapped, interpvars, rerun>>

EncMovzx ==
    \E f \in MovzxForms :
        /\ EncCall("emit_movzx", 0, 0, f)
        /\ code' = emit_movzx(code, f[1], f[2])
        /\ pc' = "encoded"

EncMov ==
    \E f \in MovForms :
        /\ EncCall("emit_mov", 0, 0, f)
        /\ code' = emit_mov(code, f[1], f[2])
        /\ pc' = "encoded"

EncAdd ==
    \E f \in AddForms :
        /\ EncCall("emit_add", 0, 0, f)
        /\ code' = emit_add(code, f[1], f[2])
        /\ pc' = "encoded"

EncSub ==
    \E f \in SubForms :
        /\ EncCall("emit_sub", 0, 0, f)
        /\ code' = emit_sub(code, f[1], f[2])
        /\ pc' = "encoded"

EncCompare ==
    \E f \in CompareForms :
        /\ EncCall("emit_compare", 0, 0, f)
        /\ code' = emit_compare(code, f[1], f[2])
        /\ pc' = "encoded"

EncPush ==
    \E r \in Regs :
        /\ EncCall("emit_push", 0, 0, <<Register(r)>>)
        /\ code' = emit_push(code, Register(r))
        /\ pc' = "encoded"

EncPop ==
    \E r \in Regs :
        /\ EncCall("emit_pop", 0, 0, <<Register(r)>>)
        /\ code' = emit_pop(code, Register(r))
        /\ pc' = "encoded"

EncJumpIfZero ==
    \E t \in AsmTargets :
        /\ EncCall("emit_jump_if_zero", 0, t, <<>>)
        /\ code' = emit_jump_if_zero(code, t)
        /\ pc' = "encoded"

EncJumpIfNonZero ==
    \E t \in AsmTargets :
        /\ EncCall("emit_jump_if_non_zero", 0, t, <<>>)
        /\ code' = emit_jump_if_non_zero(code, t)
        /\ pc' = "encoded"

EncSyscall ==
    /\ EncCall("emit_syscall", 0, 0, <<>>)
    /\ code' = emit_syscall(code)
    /\ pc' = "encoded"

EncReturn ==
    /\ EncCall("emit_return", 0, 0, <<>>)
    /\ code' = emit_return(code)
    /\ pc' = "encoded"

EncClear ==
    /\ EncCall("clear", 0, 0, <<>>)
    /\ code' = clear(code)
    /\ pc' = "encoded"

EncPatchJumpTarget ==
    \E p \in AsmPositions, t \in AsmTargets :
        /\ EncCall("patch_jump_target", p, t, <<>>)
        /\ IF p < 4 \/ p > Len(code)
           THEN pc' = "panic" /\ UNCHANGED code
           ELSE code' = patch_jump_target(code, p, t) /\ pc' = "encoded"

EncNext ==
    \/ EncMovzx
    \/ EncMov
    \/ EncAdd
    \/ EncSub
    \/ EncCompare
    \/ EncPush
    \/ EncPop
    \/ EncJumpIfZero
    \/ EncJumpIfNonZero
    \/ EncSyscall
    \/ EncReturn
    \/ EncClear
    \/ EncPatchJumpTarget

SpecEncode == EncInit /\ [][EncNext]_vars

(***************************************************************************)
(* JitCompiler::compile, one arm of its match per operator                 *)
(***************************************************************************)
\* The jump target of the forward je before it is patched (0x00c0ffee)
Placeholder == 12648430

CompileAddrRight(c, value) ==
    emit_mov(emit_add(emit_mov(c, Register(RAX), MemoryByRegister(RSI)),
                      Register(RAX), Immediate(value)),
             MemoryByRegister(RSI), Register(RAX))

CompileAddrLeft(c, value) ==
    emit_mov(emit_sub(emit_mov(c, Register(RAX), MemoryByRegister(RSI)),
                      Register(RAX), Immediate(value)),
             MemoryByRegister(RSI), Register(RAX))

CompileInc(c, value) ==
    emit_add(emit_mov(c, Register(RAX), MemoryByRegister(RSI)),
             MemoryByRegisterAndOffset(RDI, RAX), Immediate8(value))

CompileDec(c, value) ==
    emit_sub(emit_mov(c, Register(RAX), MemoryByRegister(RSI)),
             MemoryByRegisterAndOffset(RDI, RAX), Immediate8(value))

\* The body of the Output arm's loop: one write(1, &cell, 1)
MutOutputOnceNoRestore(c) ==
    LET c1 == emit_push(c, Register(RDI))
        c2 == emit_push(c1, Register(RSI))
        c3 == emit_mov(c2, Register(RAX), MemoryByRegister(RSI))
        c4 == emit_add(c3, Register(RAX), Register(RDI))
        c5 == emit_mov(c4, Register(RSI), Register(RAX))
        c6 == emit_mov(c5, Register(RAX), Immediate(1))
        c7 == emit_mov(c6, Register(RDI), Immediate(1))
        c8 == emit_mov(c7, Register(RDX), Immediate(1))
    IN emit_syscall(emit_syscall(c8))
OutputOnce(c) ==
    LET c1 == emit_push(c, Register(RDI))
        c2 == emit_push(c1, Register(RSI))
        c3 == emit_mov(c2, Register(RAX), MemoryByRegister(RSI))
        c4 == emit_add(c3, Register(RAX), Register(RDI))
        c5 == emit_mov(c4, Register(RSI), Register(RAX))
        c6 == emit_mov(c5, Register(RAX), Immediate(1))
        c7 == emit_mov(c6, Register(RDI), Immediate(1))
        c8 == emit_mov(c7, Register(RDX), Immediate(1))
        c9 == emit_syscall(c8)
        c10 == emit_pop(c9, Register(RSI))
    IN emit_pop(c10, Register(RDI))

\* for _ in 0..value: every iteration appends the same bytes
CompileOutput(c, value) ==
    LET once == OutputOnce(<<>>)
    IN c \o [k \in 1..(value * Len(once)) |-> once[((k - 1) % Len(once)) + 1]]

\* The load, movzx and compare that both brackets start with
CompileTestCell(c) ==
    emit_compare(emit_movzx(emit_mov(c, Register(RAX), MemoryByRegister(RSI)),
                            Register(RAX), MemoryByRegisterAndOffset(RDI, RAX)),
                 Register(RAX), Immediate8(0))

\* The JmpForward arm: [code, forward_jumps] after it
MutCompileJmpForwardPushesStart(c, fj) ==
    LET c1 == emit_jump_if_zero(CompileTestCell(c), Placeholder)
    IN [code |-> c1, forward_jumps |-> Append(fj, position(c)), panic |-> FALSE]
CompileJmpForward(c, fj) ==
    LET c1 == emit_jump_if_zero(CompileTestCell(c), Placeholder)
    IN [code |-> c1, forward_jumps |-> Append(fj, position(c1)), panic |-> FALSE]

\* The JmpBack arm; forward_jumps.pop().expect(..) panics on an empty stack
MutCompileJmpBackNoPatch(c, fj) ==
    IF fj = <<>>
    THEN [code |-> CompileTestCell(c), forward_jumps |-> fj, panic |-> TRUE]
    ELSE LET target == fj[Len(fj)]
             c1 == emit_jump_if_non_zero(CompileTestCell(c), target)
         IN [code |-> c1, forward_jumps |-> SubSeq(fj, 1, Len(fj) - 1), panic |-> FALSE]
CompileJmpBack(c, fj) ==
    IF fj = <<>>
    THEN [code |-> CompileTestCell(c), forward_jumps |-> fj, panic |-> TRUE]
    ELSE LET target == fj[Len(fj)]
             c1 == emit_jump_if_non_zero(CompileTestCell(c), target)
             patch_target == position(c1)
         IN [code |-> patch_jump_target(c1, target, patch_target),
             forward_jumps |-> SubSeq(fj, 1, Len(fj) - 1),
             panic |-> FALSE]

\* match self.program[i]; Input is todo!(), a panic
CompileInstr(c, fj, instr) ==
    CASE instr.op = "AddrRight" ->
            [code |-> CompileAddrRight(c, instr.n), forward_jumps |-> fj, panic |-> FALSE]
      [] instr.op = "AddrLeft" ->
            [code |-> CompileAddrLeft(c, instr.n), forward_jumps |-> fj, panic |-> FALSE]
      [] instr.op = "Inc" ->
            [code |-> CompileInc(c, instr.n), forward_jumps |-> fj, panic |-> FALSE]
      [] instr.op = "Dec" ->
            [code |-> CompileDec(c, instr.n), forward_jumps |-> fj, panic |-> FALSE]
      [] instr.op = "Output" ->
            [code |-> CompileOutput(c, instr.n), forward_jumps |-> fj, panic |-> FALSE]
      [] instr.op = "Input" ->
            [code |-> c, forward_jumps |-> fj, panic |-> TRUE]
      [] instr.op = "JmpForward" -> CompileJmpForward(c, fj)
      [] instr.op = "JmpBack" -> CompileJmpBack(c, fj)

(***************************************************************************)
(* main: parse_program, then JitCompiler::compile                          *)
(***************************************************************************)
SrcBytes == {"<", ">", "+", "-", ".", ",", "[", "]", NewLine, " "}
ShortSources == SeqsUpTo(SrcBytes, MaxSrcLen)

\* m copies of the operator c, each followed by the bytes of gap
RunSource(c, m, gap) ==
    [k \in 1..(m * (1 + Len(gap))) |->
        IF (k - 1) % (1 + Len(gap)) = 0 THEN c ELSE gap[(k - 1) % (1 + Len(gap))]]
LongRuns ==
    {RunSource(c, m, gap) : c \in {"<", ">", "+", "-", ".", ","},
                            m \in (FoldModulus - 1)..MaxRun,
                            gap \in {<<>>, <<" ">>, <<NewLine>>}}

Sources == ShortSources \cup LongRuns

TheParser == [forward_jumps |-> forward_jumps, program |-> program]

SetParser(parser) ==
    /\ forward_jumps' = parser.forward_jumps
    /\ program' = parser.program

Init ==
    /\ source \in Sources
    /\ pos = LexerNew.pos
    /\ location = LexerNew.location
    /\ peeked_token = LexerNew.peeked_token
    /\ lastOp = "new"
    /\ lastArg = ""
    /\ lastRet = None
    /\ prevLexer = LexerNew
    /\ chopped = <<>>
    /\ pc = "main"
    /\ overflow_checks = FALSE
    /\ NotYetRun
    /\ forward_jumps = ParserDefault.forward_jumps
    /\ program = ParserDefault.program
    /\ cw_token = None
    /\ cw_count = 0
    /\ error = None
    /\ jit_program = None
    /\ code = <<>>
    /\ jit_forward_jumps = <<>>
    /\ ip = 0
    /\ starts = <<>>

\* parse_program is entered: the Parser's fields are reset
ParseBegin ==
    /\ pc = "main"
    /\ pc' = "parse"
    /\ SetParser(ParserDefault)
    /\ UNCHANGED <<lexvars, obsvars, cw_token, cw_count, error, jitvars, extvars>>

\* One iteration of parse_program's loop up to parse_instruction's match:
\* chop a token; a bracket is parsed at once and pushed (an Err leaves main
\* through ?), a counted operator calls chop_while
ParseToken ==
    /\ pc = "parse"
    /\ LET c == Chop(source, TheLexer)
       IN /\ IsSome(c.ret)
          /\ SetLexer(c.lx)
          /\ IF Unwrap(c.ret).char \in {"[", "]"}
             THEN LET r == IF Unwrap(c.ret).char = "["
                           THEN ParseOpener(c.lx, TheParser)
                           ELSE ParseCloser(c.lx, TheParser, Unwrap(c.ret))
                  IN /\ UNCHANGED <<cw_token, cw_count>>
                     /\ IF r.ret.ok
                        THEN /\ SetParser([r.parser EXCEPT !.program = Append(@, r.ret.val)])
                             /\ UNCHANGED <<pc, error>>
                        ELSE /\ SetParser(r.parser)
                             /\ pc' = "exit_err"
                             /\ error' = Some(r.ret.val)
             ELSE /\ pc' = "chop_while"
                  /\ cw_token' = c.ret
                  /\ cw_count' = 0
                  /\ UNCHANGED <<forward_jumps, program, error>>
    /\ UNCHANGED <<obsvars, jitvars, extvars>>

\* One iteration of the loop of chop_while, called by parse_instruction; when
\* the loop ends the counted instruction is built and pushed
ChopWhileStep ==
    /\ pc = "chop_while"
    /\ LET it == ChopWhileIter(source, TheLexer, Unwrap(cw_token).char)
       IN /\ SetLexer(it.lx)
          /\ IF it.more
             THEN /\ cw_count' = cw_count + 1
                  /\ UNCHANGED <<pc, cw_token, program>>
             ELSE /\ program' = Append(program, CountedInstr(Unwrap(cw_token).char, cw_count))
                  /\ cw_token' = None
                  /\ cw_count' = 0
                  /\ pc' = "parse"
    /\ UNCHANGED <<obsvars, forward_jumps, error, jitvars, extvars>>

\* End of input: parse_program returns Ok(program.clone()) and main builds
\* JitCompiler::new(program, X86Assembler::default())
\* Start compiling whatever has been parsed so far, not waiting for end of input
MutParseEndEarly ==
    /\ pc = "parse"
    /\ jit_program' = Some(program)
    /\ code' = <<>>
    /\ pc' = "compile"
    /\ UNCHANGED <<lexvars, obsvars, parservars, error, jit_forward_jumps, ip, starts, extvars>>
ParseEnd ==
    /\ pc = "parse"
    /\ LET c == Chop(source, TheLexer)
       IN /\ c.ret = None
          /\ SetLexer(c.lx)
    /\ jit_program' = Some(program)
    /\ code' = <<>>
    /\ pc' = "compile"
    /\ UNCHANGED <<obsvars, parservars, error, jit_forward_jumps, ip, starts, extvars>>

\* compile is entered: its forward_jumps is empty and the buffer is cleared
CompileBegin ==
    /\ pc = "compile"
    /\ jit_forward_jumps' = <<>>
    /\ code' = clear(code)
    /\ ip' = 0
    /\ starts' = <<>>
    /\ pc' = "compile_loop"
    /\ UNCHANGED <<lexvars, obsvars, parservars, error, jit_program, extvars>>

\* One iteration of compile's loop over the Program; a panic ends the process
CompileStep ==
    /\ pc = "compile_loop"
    /\ ip < Len(Unwrap(jit_program))
    /\ LET r == CompileInstr(code, jit_forward_jumps, At(Unwrap(jit_program), ip))
       IN /\ code' = r.code
          /\ jit_forward_jumps' = r.forward_jumps
          /\ starts' = Append(starts, position(code))
          /\ IF r.panic
             THEN pc' = "panic" /\ UNCHANGED ip
             ELSE ip' = ip + 1 /\ UNCHANGED pc
    /\ UNCHANGED <<lexvars, obsvars, parservars, error, jit_program, extvars>>

\* After the loop: emit_return, then output.bin is created and written; a
\* failure of either is the Err that compile returns and main passes on
CompileEnd ==
    /\ pc = "compile_loop"
    /\ ip = Len(Unwrap(jit_program))
    /\ code' = emit_return(code)
    /\ starts' = Append(starts, position(code))
    /\ \E io_ok \in BOOLEAN :
          IF io_ok
          THEN pc' = "compiled" /\ UNCHANGED error
          ELSE /\ pc' = "exit_err"
               /\ error' = Some([kind |-> "output file", line |-> 0, column |-> 0])
    /\ UNCHANGED <<lexvars, obsvars, parservars, jit_program, jit_forward_jumps, ip, extvars>>

\* memory_map_executable_code: mmap a read/write region, copy the code in,
\* mprotect it read/exec; either libc call can fail, and then the Err carries
\* the context of the call that failed.  The Ok value is the mapped code.
memory_map_executable_code(c, mmap_ok, mprotect_ok) ==
    IF ~mmap_ok
    THEN Err([kind |-> "memory mapping region for executable code", line |-> 0, column |-> 0])
    ELSE IF ~mprotect_ok
         THEN Err([kind |-> "making memory mapped region executable", line |-> 0, column |-> 0])
         ELSE Ok(c)

\* JitCompiler::run: unwrap the mapping (an Err panics there: run returns
\* nothing that main could pass on) and call the mapped code
JitRun ==
    /\ pc = "compiled"
    /\ \E mmap_ok \in BOOLEAN, mprotect_ok \in BOOLEAN :
          LET r == memory_map_executable_code(code, mmap_ok, mprotect_ok)
          IN /\ mapped' = Some(r)
             /\ pc' = IF r.ok THEN "jit_fn" ELSE "panic"
    /\ UNCHANGED <<lexvars, obsvars, parservars, error, jitvars, asm_last, interpvars, rerun>>

Next ==
    \/ ParseBegin
    \/ ParseToken
    \/ ChopWhileStep
    \/ ParseEnd
    \/ CompileBegin
    \/ CompileStep
    \/ CompileEnd
    \/ JitRun

Spec == Init /\ [][Next]_vars

(***************************************************************************)
(* Intepreter: main with `Intepreter::new(program)` and `intepreter.run()?`*)
(* in place of the JitCompiler (main.rs:683-684), one loop iteration of    *)
(* run per step.  Of the tape only the cells 0..MaxCells are kept; a step  *)
(* that would move the cursor beyond them, or write more than MaxOut bytes *)
(* in all, is not taken.                                                   *)
(***************************************************************************)
TapeLen == 640000

Rep(ch, n) == [k \in 1..n |-> ch]

\* The two programs of the end-to-end scenarios, and the sources that open
\* with the empty loop on a non-zero cell
ScenarioA ==
    Rep("+", 7) \o <<"[", ">">> \o Rep("+", 10) \o <<"<", "-", "]", ">">>
        \o Rep("+", 3) \o <<".">>
ScenarioSeven ==
    Rep("+", 2) \o <<">">> \o Rep("+", 5) \o <<"[", "<", "+", ">", "-", "]">>
        \o Rep("+", 8) \o <<"[", "<">> \o Rep("+", 6) \o <<">", "-", "]", "<", ".">>
EmptyLoop == <<"+", "[", "]">>
LoopSources ==
    {EmptyLoop \o tail :
        tail \in SeqsUpTo({"<", ">", "+", "-", ".", ",", "[", "]"}, MaxTail)}
ScenarioSources == {ScenarioA, ScenarioSeven} \cup LoopSources
InterpSources == ScenarioSources \cup SeqsUpTo(SrcBytes, MaxInterpLen)

\* Intepreter::new
IntepreterNew(P) ==
    [program |-> P, memory |-> [k \in 1..(MaxCells + 1) |-> 0], addr |-> 0,
     instruction_ptr |-> 0]

\* memory[a] is in bounds; a negative a stands for the usize 2^64 + a
InTape(a) == a >= 0 /\ a < TapeLen

\* memory[a] and memory[a] = v, for a in bounds
Cell(mem, a) == mem[a + 1]
SetCell(mem, a, v) == [mem EXCEPT ![a + 1] = v]

\* u8::wrapping_add and u8::wrapping_sub
MutWrappingAddCarries(a, b) == (a + b + 1) % 256
wrapping_add(a, b) == (a + b) % 256
MutWrappingSubBorrows(a, b) == (a - b - 1) % 256
wrapping_sub(a, b) == (a - b) % 256

\* Where JmpForward(target) and JmpBack(target) send instruction_ptr, given
\* the cell under the cursor
MutJmpForwardPastEnd(cell, iptr, target) == IF cell = 0 THEN target + 1 ELSE iptr + 1
JmpForwardNext(cell, iptr, target) == IF cell = 0 THEN target ELSE iptr + 1
MutJmpBackOnZero(cell, iptr, target) == IF cell = 0 THEN target ELSE iptr + 1
JmpBackNext(cell, iptr, target) == IF cell # 0 THEN target ELSE iptr + 1

StdoutErr(context) == [kind |-> context, line |-> 0, column |-> 0]

\* One iteration of the loop of Intepreter::run on the instruction at
\* instruction_ptr.  st is [memory, addr, instruction_ptr, output]; good is
\* how many of the count writes and the flush of an Output succeed.  The
\* result is the new st and how the iteration ended: "next", "panic" (index
\* out of bounds, overflow in a debug build, todo!()) or an Err.
InterpInstr(st, instr, checks, good) ==
    LET next(s) == [st |-> s, ended |-> "next", err |-> None]
        panic == [st |-> st, ended |-> "panic", err |-> None]
        advance(s) == [s EXCEPT !.instruction_ptr = @ + 1]
    IN CASE instr.op = "AddrRight" ->
              IF checks /\ st.addr < 0 /\ st.addr + instr.n >= 0
              THEN panic
              ELSE next(advance([st EXCEPT !.addr = @ + instr.n]))
         [] instr.op = "AddrLeft" ->
              IF checks /\ st.addr >= 0 /\ st.addr < instr.n
              THEN panic
              ELSE next(advance([st EXCEPT !.addr = @ - instr.n]))
         [] instr.op = "Inc" ->
              IF ~InTape(st.addr)
              THEN panic
              ELSE next(advance([st EXCEPT !.memory =
                       SetCell(@, st.addr, wrapping_add(Cell(@, st.addr), instr.n))]))
         [] instr.op = "Dec" ->
              IF ~InTape(st.addr)
              THEN panic
              ELSE next(advance([st EXCEPT !.memory =
                       SetCell(@, st.addr, wrapping_sub(Cell(@, st.addr), instr.n))]))
         [] instr.op = "Output" ->
              IF instr.n > 0 /\ ~InTape(st.addr)
              THEN panic
              ELSE LET written == IF good < instr.n THEN good ELSE instr.n
                       out == [st EXCEPT !.output =
                                  @ \o Rep(Cell(st.memory, st.addr), written)]
                   IN IF good < instr.n
                      THEN [st |-> out, ended |-> "err",
                            err |-> Some(StdoutErr("writing data to stdout"))]
                      ELSE IF good = instr.n
                           THEN [st |-> out, ended |-> "err",
                                 err |-> Some(StdoutErr("flush stdout"))]
                           ELSE next(advance(out))
         [] instr.op = "Input" -> panic
         [] instr.op = "JmpForward" ->
              IF ~InTape(st.addr)
              THEN panic
              ELSE next([st EXCEPT !.instruction_ptr =
                       JmpForwardNext(Cell(st.memory, st.addr), @, instr.n)])
         [] instr.op = "JmpBack" ->
              IF ~InTape(st.addr)
              THEN panic
              ELSE next([st EXCEPT !.instruction_ptr =
                       JmpBackNext(Cell(st.memory, st.addr), @, instr.n)])

TheIntepreter ==
    [memory |-> memory, addr |-> addr, instruction_ptr |-> instruction_ptr,
     output |-> output]

\* main is started on one of the sources S, built with or without overflow checks
MainStartsOn(S) ==
    /\ source \in S
    /\ pos = LexerNew.pos
    /\ location = LexerNew.location
    /\ peeked_token = LexerNew.peeked_token
    /\ lastOp = "new"
    /\ lastArg = ""
    /\ lastRet = None
    /\ prevLexer = LexerNew
    /\ chopped = <<>>
    /\ pc = "main"
    /\ overflow_checks \in BOOLEAN
    /\ NotYetRun
    /\ forward_jumps = ParserDefault.forward_jumps
    /\ program = ParserDefault.program
    /\ cw_token = None
    /\ cw_count = 0
    /\ error = None
    /\ jit_program = None
    /\ code = <<>>
    /\ jit_forward_jumps = <<>>
    /\ ip = 0
    /\ starts = <<>>

InterpInit == MainStartsOn(InterpSources)

\* End of input: parse_program returns Ok(program.clone()) and main builds
\* Intepreter::new(program) and calls run
InterpParseEnd ==
    /\ pc = "parse"
    /\ LET c == Chop(source, TheLexer)
       IN /\ c.ret = None
          /\ SetLexer(c.lx)
    /\ interp_program' = Some(IntepreterNew(program).program)
    /\ memory' = IntepreterNew(program).memory
    /\ addr' = IntepreterNew(program).addr
    /\ instruction_ptr' = IntepreterNew(program).instruction_ptr
    /\ pc' = "run"
    /\ UNCHANGED <<obsvars, parservars, error, jitvars, mapped, asm_last,
                   overflow_checks, output, steps, rerun>>

\* One iteration of the while loop of run; an Err leaves run and main through ?
InterpStep ==
    /\ pc = "run"
    /\ instruction_ptr < Len(Unwrap(interp_program))
    /\ LET instr == At(Unwrap(interp_program), instruction_ptr)
       IN \E good \in 0..(IF instr.op = "Output" THEN instr.n + 1 ELSE 0) :
             LET r == InterpInstr(TheIntepreter, instr, overflow_checks, good)
             IN /\ r.st.addr <= MaxCells
                /\ Len(r.st.output) <= MaxOut
                /\ memory' = r.st.memory
                /\ addr' = r.st.addr
                /\ instruction_ptr' = r.st.instruction_ptr
                /\ output' = r.st.output
                /\ error' = r.err
                /\ pc' = CASE r.ended = "next" -> "run"
                           [] r.ended = "panic" -> "panic"
                           [] r.ended = "err" -> "exit_err"
    /\ steps' = IF steps < MaxSteps THEN steps + 1 ELSE steps
    /\ UNCHANGED <<lexvars, obsvars, parservars, jitvars, mapped, asm_last,
                   overflow_checks, interp_program, rerun>>

\* The loop condition fails: run returns Ok(()) and so does main
InterpReturn ==
    /\ pc = "run"
    /\ instruction_ptr >= Len(Unwrap(interp_program))
    /\ pc' = "exit_ok"
    /\ UNCHANGED <<lexvars, obsvars, parservars, error, jitvars, extvars>>

InterpNext ==
    \/ ParseBegin
    \/ ParseToken
    \/ ChopWhileStep
    \/ InterpParseEnd
    \/ InterpStep
    \/ InterpReturn

SpecInterp == InterpInit /\ [][InterpNext]_vars

\* The scenario programs alone, with main scheduled until it ends: a
\* process that can take a step takes one
ScenarioInit == MainStartsOn(ScenarioSources)

SpecScenarios == ScenarioInit /\ [][InterpNext]_vars /\ WF_vars(InterpNext)

(***************************************************************************)
(* The same Parser and the same JitCompiler called again: parse_program on *)
(* a new Lexer over the source after it returned (Ok or Err), compile      *)
(* after it returned, up to MaxCalls more times each.                      *)
(***************************************************************************)
RerunSources == SeqsUpTo(SrcBytes, MaxRerunLen)

RerunInit ==
    /\ MainStartsOn(RerunSources)
    /\ overflow_checks = FALSE

\* parse_program is called once more on the Parser as the last call left it
ParseAgain ==
    /\ rerun.parses < MaxCalls
    /\ \/ pc = "exit_err" /\ jit_program = None
       \/ pc = "compile"
    /\ rerun' = [rerun EXCEPT !.parses = @ + 1,
                              !.parser = Some(TheParser),
                              !.error = error]
    /\ SetLexer(LexerNew)
    /\ error' = None
    /\ jit_program' = None
    /\ pc' = "main"
    /\ UNCHANGED <<obsvars, parservars, code, jit_forward_jumps, ip, starts,
                   mapped, asm_last, interpvars>>

\* compile is called once more on the JitCompiler; its assembler holds the
\* code of the call before
CompileAgain ==
    /\ rerun.compiles < MaxCalls
    /\ \/ pc = "compiled"
       \/ pc = "exit_err" /\ IsSome(jit_program)
    /\ rerun' = [rerun EXCEPT !.compiles = @ + 1, !.code = Some(code)]
    /\ error' = None
    /\ pc' = "compile"
    /\ UNCHANGED <<lexvars, obsvars, parservars, jitvars, mapped, asm_last, interpvars>>

RerunNext ==
    \/ ParseBegin
    \/ ParseToken
    \/ ChopWhileStep
    \/ ParseEnd
    \/ CompileBegin
    \/ CompileStep
    \/ CompileEnd
    \/ ParseAgain
    \/ CompileAgain

SpecRerun == RerunInit /\ [][RerunNext]_vars

(***************************************************************************)
(* What the lexer is specified to deliver, stated on the source alone      *)
(***************************************************************************)
Alphabet == {"<", ">", "+", "-", ".", ",", "[", "]"}

\* (1 + newlines before byte i, 1 + bytes between the last newline before
\* byte i and byte i)
LawLocation(src, i) ==
    LET nls == {j \in 1..(i - 1) : src[j] = NewLine}
        lastNl == IF nls = {} THEN 0 ELSE CHOOSE j \in nls : \A k \in nls : k <= j
    IN [line |-> 1 + Cardinality(nls), column |-> i - lastNl]

\* The in-alphabet bytes of src after its first p bytes, in source order
RECURSIVE TokensFrom(_, _)
TokensFrom(src, p) ==
    IF p >= Len(src) THEN <<>>
    ELSE IF src[p + 1] \in Alphabet
         THEN <<[char |-> src[p + 1], location |-> LawLocation(src, p + 1)]>>
              \o TokensFrom(src, p + 1)
         ELSE TokensFrom(src, p + 1)

\* The tokens a lexer in state lx has still to deliver
Upcoming(src, lx) == lx.peeked_token \o TokensFrom(src, lx.pos)

\* The length of the longest prefix of toks whose characters all equal ch
RECURSIVE RunLength(_, _)
RunLength(toks, ch) ==
    IF toks = <<>> \/ Head(toks).char # ch THEN 0
    ELSE 1 + RunLength(Tail(toks), ch)

Drop(s, n) == SubSeq(s, n + 1, Len(s))

\* C5: every token the lexer returns, under any interleaving of peek, chop
\* and chop_while, carries the location (1 + newlines before its byte,
\* 1 + bytes since the last newline before its byte).
C5_LocationLaw ==
    /\ \A k \in 1..Len(chopped) :
          chopped[k].location = TokensFrom(source, 0)[k].location
    /\ (lastOp \in {"peek", "chop"} /\ IsSome(lastRet)) =>
          /\ source[pos] = Unwrap(lastRet).char
          /\ Unwrap(lastRet).location = LawLocation(source, pos)

C5_Witness ==
    /\ lastOp = "chop"
    /\ IsSome(lastRet)
    /\ Unwrap(lastRet).location.line = 3
    /\ Unwrap(lastRet).location.column = 2
    /\ IsSome(prevLexer.peeked_token)
    /\ Len(chopped) = 2

\* C6: the tokens returned by the chop calls are the in-alphabet bytes of
\* the source in source order, none lost and none duplicated; a chop that
\* finds a peeked token returns it and empties the slot; at end of input
\* every in-alphabet byte has been returned.
C6_ChopStream ==
    /\ chopped \o Upcoming(source, TheLexer) = TokensFrom(source, 0)
    /\ (lastOp = "chop" /\ IsSome(prevLexer.peeked_token)) =>
          (lastRet = prevLexer.peeked_token /\ peeked_token = None)
    /\ (lastOp = "chop" /\ lastRet = None) => chopped = TokensFrom(source, 0)

C6_Witness ==
    /\ lastOp = "chop"
    /\ IsSome(prevLexer.peeked_token)
    /\ Len(chopped) = 2
    /\ Len(source) = 4
    /\ \E i \in 1..Len(source) : source[i] \notin Alphabet
    /\ Upcoming(source, TheLexer) = <<>>

\* C7: a peek consumes no token, and a peek that directly follows a peek
\* returns the same result (same character and location, or end of input).
C7_PeekIdempotent ==
    [][lastOp' = "peek" =>
          /\ Upcoming(source', TheLexer') = Upcoming(source, TheLexer)
          /\ chopped' = chopped
          /\ (lastOp = "peek" => lastRet' = lastRet)]_vars

C7_Witness ==
    /\ lastOp = "peek"
    /\ IsSome(lastRet)
    /\ prevLexer = TheLexer
    /\ Len(TokensFrom(source, pos)) >= 1

\* C8: chop_while(T) returns the length of the maximal run of upcoming
\* tokens whose character is T's, consumes exactly that run, and leaves the
\* first differing token to be returned by the next chop.
C8_ChopWhileMaximalRun ==
    lastOp = "chop_while" =>
        LET before == Upcoming(source, prevLexer)
            n == RunLength(before, lastArg)
        IN /\ Unwrap(lastRet) = n
           /\ Upcoming(source, TheLexer) = Drop(before, n)
           /\ SubSeq(chopped, Len(chopped) - n + 1, Len(chopped)) = SubSeq(before, 1, n)
           /\ Chop(source, TheLexer).ret =
                 (IF Len(before) > n THEN Some(before[n + 1]) ELSE None)

C8_Witness ==
    /\ lastOp = "chop_while"
    /\ Unwrap(lastRet) = 2
    /\ Len(Upcoming(source, TheLexer)) = 1
    /\ \E i \in 2..Len(source) : source[i] \notin Alphabet /\ source[i - 1] = lastArg

(***************************************************************************)
(* What the parser is specified to deliver, stated on the source alone     *)
(***************************************************************************)
Count(src, n, ch) == Cardinality({j \in 1..n : src[j] = ch})

\* Openers minus closers among the first n bytes of src
Depth(src, n) == Count(src, n, "[") - Count(src, n, "]")

\* The index of the first ] that has no opener, or 0
FirstUnmatchedClose(src) ==
    LET bad == {j \in 1..Len(src) : src[j] = "]" /\ Depth(src, j) < 0}
    IN IF bad = {} THEN 0 ELSE CHOOSE j \in bad : \A k \in bad : j <= k

Balanced(src) == FirstUnmatchedClose(src) = 0 /\ Depth(src, Len(src)) = 0

\* Every [ that is closed leaves the stack, so the stack is non-empty at the
\* end of the input exactly when the input is read to its end with depth > 0
UnclosedOpener(src) == FirstUnmatchedClose(src) = 0 /\ Depth(src, Len(src)) > 0

BracketInvariant(P) ==
    \A idx \in 0..(Len(P) - 1) :
        /\ At(P, idx).op = "JmpForward" =>
              /\ At(P, idx).n - 1 \in 0..(Len(P) - 1)
              /\ At(P, At(P, idx).n - 1) = Instr("JmpBack", idx + 1)
        /\ At(P, idx).op = "JmpBack" =>
              /\ At(P, idx).n - 1 \in 0..(Len(P) - 1)
              /\ At(P, At(P, idx).n - 1) = Instr("JmpForward", idx + 1)

ParseReturned == pc \notin {"main", "parse", "chop_while"}

\* C1: for every source whose brackets are balanced, the Program that
\* parse_program returns satisfies the bracket invariant: a JmpForward at i
\* with target t has a JmpBack at t-1 with target i+1, and conversely.
C1_BracketInvariant ==
    (IsSome(jit_program) /\ Balanced(source)) => BracketInvariant(Unwrap(jit_program))

C1_Witness ==
    /\ IsSome(jit_program)
    /\ Balanced(source)
    /\ Unwrap(jit_program) = <<Instr("JmpForward", 4), Instr("JmpForward", 3),
                               Instr("JmpBack", 2), Instr("JmpBack", 1)>>

\* The kind of instruction the data model gives each counted operator
SpecKind(ch) ==
    CASE ch = ">" -> "AddrRight"
      [] ch = "<" -> "AddrLeft"
      [] ch = "+" -> "Inc"
      [] ch = "-" -> "Dec"
      [] ch = "." -> "Output"
      [] ch = "," -> "Input"

\* src is m >= 1 occurrences of the counted operator ch among bytes outside
\* the alphabet
IsRunOf(src, ch) ==
    /\ \E j \in 1..Len(src) : src[j] = ch
    /\ \A j \in 1..Len(src) : src[j] = ch \/ src[j] \notin Alphabet

\* C2: a source of m >= 1 occurrences of one counted operator c among bytes
\* outside the alphabet parses to exactly one instruction of c's kind, with
\* count m for < > . , and m mod 255 for + and -.
C2_Coalescing ==
    ParseReturned =>
        \A ch \in {"<", ">", "+", "-", ".", ","} :
            IsRunOf(source, ch) =>
                LET m == Count(source, Len(source), ch)
                IN jit_program = Some(<<Instr(SpecKind(ch),
                                             IF ch \in {"+", "-"} THEN m % 255 ELSE m)>>)

C2_Witness ==
    /\ jit_program = Some(<<Instr("Inc", 1)>>)
    /\ Count(source, Len(source), "+") = 256
    /\ Count(source, Len(source), NewLine) = 256

\* C3: a source with a [ that is never closed makes parse_program fail:
\* main gets an error and no Program.
C3_UnclosedOpenerFails ==
    (ParseReturned /\ UnclosedOpener(source)) =>
        (pc = "exit_err" /\ IsSome(error) /\ jit_program = None)

\* C4: once a ] has been consumed while the forward-jump stack is empty,
\* parse_program has failed with the error that carries the (line, column)
\* of that ], and no Program was returned.
C4_UnmatchedCloserFails ==
    LET idx == FirstUnmatchedClose(source)
    IN (idx # 0 /\ pos >= idx /\ peeked_token = None) =>
           /\ pc = "exit_err"
           /\ error = Some([kind |-> "no corresponding forward jump",
                            line |-> LawLocation(source, idx).line,
                            column |-> LawLocation(source, idx).column])
           /\ jit_program = None

C4_Witness ==
    /\ pc = "exit_err"
    /\ source = <<"[", "]", NewLine, "]">>
    /\ Unwrap(error).line = 2
    /\ Unwrap(error).column = 1

(***************************************************************************)
(* The generated code, read back from the buffer                           *)
(***************************************************************************)
\* compile has emitted the final ret: starts holds the offset of every
\* instruction's translation and, last, the offset of the ret
CodeComplete ==
    /\ IsSome(jit_program)
    /\ pc \in {"compiled", "exit_err", "jit_fn", "panic"}
    /\ Len(starts) = Len(Unwrap(jit_program)) + 1

\* The code offset where the translation of instruction t starts; for
\* t = Program length, the offset of the final ret
StartOf(t) == starts[t + 1]

\* The byte at code offset o
ByteAt(o) == code[o + 1]

\* The little-endian signed 32-bit integer in the bytes at offsets o..o+3
DecodeLe32(o) ==
    LET low == ByteAt(o) + 256 * ByteAt(o + 1) + 65536 * ByteAt(o + 2)
        high == ByteAt(o + 3)
    IN IF high >= 128 THEN low + (high - 256) * 16777216 ELSE low + high * 16777216

\* A bracket's translation ends with its 6-byte jump: its two opcode bytes
\* and the offset where the processor continues when the jump is taken
JumpOpcode(k) == <<ByteAt(StartOf(k + 1) - 6), ByteAt(StartOf(k + 1) - 5)>>
JumpLanding(k) == StartOf(k + 1) + DecodeLe32(StartOf(k + 1) - 4)

JeOpcode == <<15, 132>>
JneOpcode == <<15, 133>>

\* C9: for every Program parsed from a balanced source, the taken je of a
\* JmpForward(t) lands where the translation of instruction t starts (on the
\* final ret when t is the Program length), and the taken jne of a
\* JmpBack(u) lands where the translation of instruction u starts.
C9_JumpsAgreeWithTargets ==
    (CodeComplete /\ Balanced(source)) =>
        LET P == Unwrap(jit_program)
        IN /\ ByteAt(StartOf(Len(P))) = 195
           /\ StartOf(Len(P)) = Len(code) - 1
           /\ \A k \in 0..(Len(P) - 1) :
                 /\ At(P, k).op = "JmpForward" =>
                       /\ JumpOpcode(k) = JeOpcode
                       /\ At(P, k).n \in 0..Len(P)
                       /\ JumpLanding(k) = StartOf(At(P, k).n)
                 /\ At(P, k).op = "JmpBack" =>
                       /\ JumpOpcode(k) = JneOpcode
                       /\ At(P, k).n \in 0..Len(P)
                       /\ JumpLanding(k) = StartOf(At(P, k).n)

C9_Witness ==
    /\ pc = "compiled"
    /\ Balanced(source)
    /\ Unwrap(jit_program) = <<Instr("JmpForward", 3), Instr("Output", 1),
                               Instr("JmpBack", 1)>>
    /\ JumpLanding(0) = StartOf(3)
    /\ JumpLanding(2) = StartOf(1)
    /\ \E j \in 1..Len(source) : source[j] \notin Alphabet

\* The index of the JmpForward that the JmpBack at index k closes: the
\* nearest opener before k with as many openers as closers in between
MatchingOpener(P, k) ==
    LET between(o, op) == Cardinality({j \in (o + 1)..(k - 1) : At(P, j).op = op})
        cands == {o \in 0..(k - 1) :
                     /\ At(P, o).op = "JmpForward"
                     /\ between(o, "JmpForward") = between(o, "JmpBack")}
    IN CHOOSE o \in cands : \A q \in cands : q <= o

\* C10 as claimed: the jne of every JmpBack targets the first emitted byte
\* of the matching opener's translation (its mov RAX, [RSI]).
C10_JneTargetsOpenerStart ==
    CodeComplete =>
        LET P == Unwrap(jit_program)
        IN \A k \in 0..(Len(P) - 1) :
              At(P, k).op = "JmpBack" =>
                  /\ JumpOpcode(k) = JneOpcode
                  /\ JumpLanding(k) = StartOf(MatchingOpener(P, k))

\* C10 as amended: the jne of every JmpBack targets the code offset right
\* after the je rel32 of the matching opener, the end of the opener's
\* translation and the first byte of the loop body.
C10_JneTargetsAfterOpenerJe ==
    CodeComplete =>
        LET P == Unwrap(jit_program)
        IN \A k \in 0..(Len(P) - 1) :
              At(P, k).op = "JmpBack" =>
                  LET o == MatchingOpener(P, k)
                  IN /\ JumpOpcode(k) = JneOpcode
                     /\ JumpOpcode(o) = JeOpcode
                     /\ JumpLanding(k) = StartOf(o) + 17
                     /\ JumpLanding(k) = StartOf(o + 1)

C10_Witness ==
    /\ pc = "compiled"
    /\ Len(Unwrap(jit_program)) = 4
    /\ At(Unwrap(jit_program), 3).op = "JmpBack"
    /\ At(Unwrap(jit_program), 2).op = "JmpBack"
    /\ JumpLanding(3) = 17
    /\ JumpLanding(2) = 34

\* The index of the JmpBack that closes the JmpForward at index k: the
\* nearest closer after k with as many openers as closers in between
MatchingCloser(P, k) ==
    LET between(c, op) == Cardinality({j \in (k + 1)..(c - 1) : At(P, j).op = op})
        cands == {c \in (k + 1)..(Len(P) - 1) :
                     /\ At(P, c).op = "JmpBack"
                     /\ between(c, "JmpForward") = between(c, "JmpBack")}
    IN CHOOSE c \in cands : \A q \in cands : c <= q

\* C11: when compile has finished on a Program with balanced brackets, the
\* displacement of every forward je is patched: the je lands on the code
\* offset right after the jne of its matching JmpBack, whatever the nesting.
C11_ForwardJePatched ==
    (CodeComplete /\ Balanced(source)) =>
        LET P == Unwrap(jit_program)
        IN \A k \in 0..(Len(P) - 1) :
              At(P, k).op = "JmpForward" =>
                  LET c == MatchingCloser(P, k)
                  IN /\ JumpOpcode(k) = JeOpcode
                     /\ JumpOpcode(c) = JneOpcode
                     /\ JumpLanding(k) = StartOf(c) + 17
                     /\ JumpLanding(k) = StartOf(c + 1)
                     /\ JumpLanding(k) # Placeholder

C11_Witness ==
    /\ pc = "compiled"
    /\ Unwrap(jit_program) = <<Instr("JmpForward", 4), Instr("JmpForward", 3),
                               Instr("JmpBack", 2), Instr("JmpBack", 1)>>
    /\ JumpLanding(0) = 68
    /\ JumpLanding(1) = 51
    /\ jit_forward_jumps = <<>>

\* The number of code bytes the translation of one instruction takes:
\* mov/add|sub imm32/mov (13), mov/add|sub imm8 (7), 36 per write, and
\* mov/movzx/cmp/jcc (17)
TranslationSize(instr) ==
    CASE instr.op \in {"AddrRight", "AddrLeft"} -> 13
      [] instr.op \in {"Inc", "Dec"} -> 7
      [] instr.op = "Output" -> 36 * instr.n
      [] instr.op \in {"JmpForward", "JmpBack"} -> 17

RECURSIVE TotalSize(_)
TotalSize(P) == IF P = <<>> THEN 0 ELSE TranslationSize(Head(P)) + TotalSize(Tail(P))

\* C13: when compile has translated a Program, the buffer is the
\* translations of its instructions followed by exactly one ret byte (0xC3);
\* for the empty Program the buffer is that single byte.
C13_SingleTrailingRet ==
    CodeComplete =>
        LET P == Unwrap(jit_program)
        IN /\ Len(code) = TotalSize(P) + 1
           /\ code[Len(code)] = 195
           /\ StartOf(Len(P)) = TotalSize(P)
           /\ P = <<>> => code = <<195>>

C13_Witness ==
    /\ pc = "compiled"
    /\ jit_program = Some(<<>>)
    /\ code = <<195>>
    /\ Len(source) = 2

\* compile has reached an instruction it has no translation for: the
\* iteration at index ip ran and that instruction is an Input
CompileReachedInput ==
    /\ IsSome(jit_program)
    /\ ip < Len(Unwrap(jit_program))
    /\ At(Unwrap(jit_program), ip).op = "Input"
    /\ Len(starts) = ip + 1

\* C14 (as claimed): when compile meets an Input it returns an
\* unsupported-operation error value that main passes on, and nothing is run.
C14_InputRefusedAsError ==
    CompileReachedInput => (pc = "exit_err" /\ IsSome(error) /\ mapped = None)

\* The stages of main in the order it runs them
StageOrder ==
    {<<"main", "parse">>, <<"parse", "chop_while">>, <<"chop_while", "parse">>,
     <<"parse", "exit_err">>, <<"parse", "compile">>, <<"compile", "compile_loop">>,
     <<"compile_loop", "panic">>, <<"compile_loop", "exit_err">>,
     <<"compile_loop", "compiled">>, <<"compiled", "jit_fn">>, <<"compiled", "panic">>}

\* C19: main runs its stages strictly in order: code generation starts only
\* when parse_program has consumed the source to end of input, the generated
\* code is invoked only when compile has completed, and an error returned by
\* parsing or compilation is what main returns, with the code never invoked.
C19_StagesInOrder ==
    /\ [](IsSome(jit_program) =>
             /\ pos = Len(source)
             /\ peeked_token = None
             /\ jit_program = Some(program))
    /\ [](pc = "jit_fn" =>
             /\ CodeComplete
             /\ code[Len(code)] = 195
             /\ mapped = Some(Ok(code))
             /\ error = None)
    /\ [](IsSome(error) => (pc = "exit_err" /\ mapped = None))
    /\ [][/\ pc' # pc => <<pc, pc'>> \in StageOrder
          /\ pc \notin {"exit_err", "panic", "jit_fn"}
          /\ pc' = "compile" => (pos' = Len(source) /\ peeked_token' = None)]_vars

C19_Witness ==
    /\ pc = "jit_fn"
    /\ Len(Unwrap(jit_program)) = 3
    /\ mapped = Some(Ok(code))

\* C20 (as claimed): when mmap or mprotect fails, run hands the failure to
\* main as an error value and the generated code is not invoked.
C20_MapFailurePropagates ==
    (IsSome(mapped) /\ ~Unwrap(mapped).ok) =>
        (pc = "exit_err" /\ error = Some(Unwrap(mapped).val))

\* C12: patch_jump_target(p, t) writes t - p as a little-endian signed
\* 32-bit integer into the bytes at offsets [p - 4, p) and leaves every other
\* byte of the buffer, and the length of the buffer, as they were.
C12_PatchWritesDisplacementOnly ==
    (asm_last.op = "patch_jump_target" /\ pc = "asm") =>
        LET p == asm_last.p
            t == asm_last.t
            before == asm_last.before
        IN /\ Len(code) = Len(before)
           /\ DecodeLe32(p - 4) = t - p
           /\ \A o \in 0..(Len(code) - 1) :
                 o \notin (p - 4)..(p - 1) => code[o + 1] = before[o + 1]

C12_Witness ==
    /\ pc = "asm"
    /\ asm_last.op = "patch_jump_target"
    /\ asm_last.p = 6
    /\ asm_last.t = 0
    /\ asm_last.before = <<15, 132, 38, 1, 0, 0, 195>>
    /\ code = <<15, 132, 250, 255, 255, 255, 195>>

\* run or main has ended: returned Ok, returned an Err, or panicked
Ended == pc \in {"exit_ok", "exit_err", "panic"}

StdoutFailed ==
    /\ pc = "exit_err"
    /\ error \in {Some(StdoutErr("writing data to stdout")), Some(StdoutErr("flush stdout"))}

\* C15 (as claimed): parsing and executing +++++++[>++++++++++<-]>+++.
\* writes exactly one byte to standard output, and that byte is 0x41.
C15_WritesByte41 ==
    (source = ScenarioA /\ pc = "exit_ok") => output = <<65>>

\* C15: parsing and executing +++++++[>++++++++++<-]>+++. writes exactly one
\* byte to standard output, and that byte is 7 * 10 + 3 = 73 = 0x49; nothing
\* is written before it, and the run ends otherwise only if stdout fails.
C15_WritesByte49 ==
    source = ScenarioA =>
        /\ pc # "panic"
        /\ output \in {<<>>, <<73>>}
        /\ pc = "exit_ok" => (output = <<73>> /\ instruction_ptr = 10)
        /\ pc = "exit_err" => StdoutFailed
        /\ (pc = "run" /\ instruction_ptr < 9) => output = <<>>

C15_Witness ==
    /\ source = ScenarioA
    /\ pc = "exit_ok"
    /\ output = <<73>>
    /\ addr = 1
    /\ Cell(memory, 0) = 0

\* C16: parsing and executing ++>+++++[<+>-]++++++++[<++++++>-]<. comes to
\* an end, and writes exactly one byte to standard output, the byte 0x37.
C16_WritesByte37 ==
    /\ [](source = ScenarioSeven =>
             /\ pc # "panic"
             /\ output \in {<<>>, <<55>>}
             /\ pc = "exit_ok" => output = <<55>>
             /\ pc = "exit_err" => StdoutFailed)
    /\ (source = ScenarioSeven) ~> (pc = "exit_ok" \/ StdoutFailed)

C16_Witness ==
    /\ source = ScenarioSeven
    /\ pc = "exit_ok"
    /\ output = <<55>>
    /\ addr = 0
    /\ Cell(memory, 1) = 0

OutputLayout == <<1, 1, 3, 3, 3, 7, 7, 7, 2, 1, 1>>

\* The offset, within a translation laid out as layout, of its k-th instruction
RECURSIVE OffsetIn(_, _)
OffsetIn(layout, k) == IF k = 1 THEN 0 ELSE OffsetIn(layout, k - 1) + layout[k - 1]

\* The j-th of the 36-byte sequences of the Output translation at index t
OutputChunk(t, j) == SubSeq(code, StartOf(t) + 36 * (j - 1) + 1, StartOf(t) + 36 * j)

\* How many instructions of a chunk are a syscall (0F 05)
SyscallsIn(chunk) ==
    Cardinality({k \in 1..Len(OutputLayout) :
                    /\ OutputLayout[k] = 2
                    /\ chunk[OffsetIn(OutputLayout, k) + 1] = 15
                    /\ chunk[OffsetIn(OutputLayout, k) + 2] = 5})

\* C21: the translation of Output(n) is n consecutive copies of one byte
\* sequence; each copy holds exactly one syscall, begins with push RDI,
\* push RSI and ends with pop RSI, pop RDI.
C21_OutputIsCopies ==
    CodeComplete =>
        LET P == Unwrap(jit_program)
        IN \A t \in 0..(Len(P) - 1) :
              At(P, t).op = "Output" =>
                  LET n == At(P, t).n
                      first == OutputChunk(t, 1)
                  IN /\ StartOf(t + 1) - StartOf(t) = 36 * n
                     /\ \A j \in 1..n : OutputChunk(t, j) = first
                     /\ SubSeq(first, 1, 2) = <<87, 86>>
                     /\ SubSeq(first, 35, 36) = <<94, 95>>
                     /\ SyscallsIn(first) = 1
                     /\ Cardinality({b \in 1..35 : first[b] = 15 /\ first[b + 1] = 5}) = 1

C21_Witness ==
    /\ pc = "compiled"
    /\ jit_program = Some(<<Instr("Inc", 1), Instr("Output", 3)>>)
    /\ Len(code) = 7 + 108 + 1
    /\ OutputChunk(1, 3) = OutputChunk(1, 1)

Max(S) == CHOOSE x \in S : \A y \in S : y <= x

\* The last byte of the alphabet among the first n bytes of src, or 0
RECURSIVE LastToken(_, _)
LastToken(src, n) ==
    IF n = 0 \/ src[n] \in Alphabet THEN n ELSE LastToken(src, n - 1)

\* The length of the run of equal operators that ends at byte e of src:
\* the occurrences of src[e] after the last different operator before e
RunEndingAt(src, e) ==
    LET others == {j \in 1..e : src[j] \in Alphabet /\ src[j] # src[e]}
        s == IF others = {} THEN 0 ELSE Max(others)
    IN Cardinality({j \in (s + 1)..e : src[j] = src[e]})

CountInRange(instr) ==
    /\ instr.op \in {"AddrRight", "AddrLeft", "Output", "Input"} => instr.n >= 1
    /\ instr.op \in {"Inc", "Dec"} => instr.n \in 0..254

\* C24: every instruction of every Program of parse_program keeps the count
\* ranges: > < . , carry a count >= 1, + and - a count in 0..254 that is the
\* run length modulo 255 (0 exactly for a multiple of 255, never 255).
C24_CountRanges ==
    /\ \A k \in 1..Len(program) : CountInRange(program[k])
    /\ IsSome(jit_program) =>
          (jit_program = Some(program) /\ (pc = "compile" => pos = Len(source)))
    /\ (pc = "parse" /\ program # <<>>
            /\ program[Len(program)].op \notin {"JmpForward", "JmpBack"}) =>
          LET last == program[Len(program)]
              e == LastToken(source, IF IsSome(peeked_token) THEN pos - 1 ELSE pos)
              r == RunEndingAt(source, e)
          IN /\ e >= 1
             /\ r >= 1
             /\ last.op = SpecKind(source[e])
             /\ last.n = IF last.op \in {"Inc", "Dec"} THEN r % 255 ELSE r
             /\ last.op \in {"Inc", "Dec"} => (last.n = 0 <=> r % 255 = 0)

C24_Witness ==
    /\ jit_program = Some(<<Instr("Dec", 0)>>)
    /\ Count(source, Len(source), "-") = 255
    /\ pc = "compile"

\* The instructions of each translation other than Output's, by their lengths
TranslationLayout(instr) ==
    CASE instr.op \in {"AddrRight", "AddrLeft"} -> <<3, 7, 3>>
      [] instr.op \in {"Inc", "Dec"} -> <<3, 4>>
      [] instr.op \in {"JmpForward", "JmpBack"} -> <<3, 4, 4, 6>>

\* push r64 is 50+r and pop r64 is 58+r: the stack depth after the first k
\* instructions of bytes, laid out as layout
StackDepth(bytes, layout, k) ==
    Cardinality({q \in 1..k : bytes[OffsetIn(layout, q) + 1] \in 80..87})
        - Cardinality({q \in 1..k : bytes[OffsetIn(layout, q) + 1] \in 88..95})

\* Every pop has its push before it and every push its pop after it
StackNeutral(bytes, layout) ==
    /\ \A k \in 1..Len(layout) : StackDepth(bytes, layout, k) >= 0
    /\ StackDepth(bytes, layout, Len(layout)) = 0

\* C26: in the code of a Program with balanced brackets every je and jne
\* lands inside the buffer on the first byte of the translation of some
\* instruction or on the final ret, and every translation pops what it
\* pushes, so the stack is as the caller left it wherever ret is reached.
C26_JumpsLandOnStarts ==
    (CodeComplete /\ Balanced(source)) =>
        LET P == Unwrap(jit_program)
        IN /\ \A k \in 0..(Len(P) - 1) :
                 At(P, k).op \in {"JmpForward", "JmpBack"} =>
                     /\ JumpLanding(k) \in 0..(Len(code) - 1)
                     /\ \E t \in 0..Len(P) : JumpLanding(k) = StartOf(t)
           /\ \A t \in 0..(Len(P) - 1) :
                 IF At(P, t).op = "Output"
                 THEN \A j \in 1..At(P, t).n : StackNeutral(OutputChunk(t, j), OutputLayout)
                 ELSE StackNeutral(SubSeq(code, StartOf(t) + 1, StartOf(t + 1)),
                                   TranslationLayout(At(P, t)))
           /\ ByteAt(StartOf(Len(P))) = 195

C26_Witness ==
    /\ pc = "compiled"
    /\ jit_program = Some(<<Instr("JmpForward", 3), Instr("Output", 1), Instr("JmpBack", 1)>>)
    /\ JumpLanding(0) = 70
    /\ JumpLanding(2) = 17
    /\ Len(code) = 71

\* C27 (as claimed): for every source that parse_program accepts, the code
\* has no je left with the placeholder target 0x00c0ffee, and the patch stack
\* of compile is empty when the final ret is emitted.
C27_NoPlaceholderLeft ==
    CodeComplete =>
        LET P == Unwrap(jit_program)
        IN /\ jit_forward_jumps = <<>>
           /\ \A k \in 0..(Len(P) - 1) :
                 At(P, k).op = "JmpForward" => JumpLanding(k) # Placeholder

\* The bytes of the source that parse_program has consumed: those read,
\* less the one held as peeked token
Consumed == IF IsSome(peeked_token) THEN pos - 1 ELSE pos

\* C28: after each token parse_program has processed, forward_jumps is a
\* strictly increasing sequence of indices below the Program length, each
\* holding the placeholder JmpForward(0); every other JmpForward is patched
\* to a target above its own index; and the stack depth is the number of [
\* consumed minus the number of ] consumed.
C28_ParserStack ==
    ~(pc = "exit_err" /\ jit_program = None) =>
        /\ \A a \in 1..Len(forward_jumps) :
              /\ forward_jumps[a] \in 0..(Len(program) - 1)
              /\ At(program, forward_jumps[a]) = Instr("JmpForward", 0)
              /\ a > 1 => forward_jumps[a - 1] < forward_jumps[a]
        /\ \A k \in 0..(Len(program) - 1) :
              (At(program, k).op = "JmpForward"
                   /\ \A a \in 1..Len(forward_jumps) : forward_jumps[a] # k) =>
                  At(program, k).n > k
        /\ Len(forward_jumps) = Depth(source, Consumed)

C28_Witness ==
    /\ pc = "parse"
    /\ forward_jumps = <<0, 3>>
    /\ program = <<Instr("JmpForward", 0), Instr("JmpForward", 3),
                   Instr("JmpBack", 2), Instr("JmpForward", 0)>>

\* The bytes the last assembler call appended, when it appended
Appended == SubSeq(code, Len(asm_last.before) + 1, Len(code))

\* C22: emit_jump_if_zero(target) and emit_jump_if_non_zero(target) each
\* append exactly 6 bytes, 0F 84 resp. 0F 85 and a little-endian signed
\* 32-bit displacement equal to target minus the offset where the 6 bytes end.
C22_JumpEncoding ==
    (pc = "encoded" /\ asm_last.op \in {"emit_jump_if_zero", "emit_jump_if_non_zero"}) =>
        /\ Len(code) = Len(asm_last.before) + 6
        /\ SubSeq(code, 1, Len(asm_last.before)) = asm_last.before
        /\ SubSeq(Appended, 1, 2) =
               IF asm_last.op = "emit_jump_if_zero" THEN <<15, 132>> ELSE <<15, 133>>
        /\ DecodeLe32(Len(code) - 4) = asm_last.t - Len(code)

C22_Witness ==
    /\ pc = "encoded"
    /\ asm_last.op = "emit_jump_if_zero"
    /\ asm_last.t = 6
    /\ Len(asm_last.before) = 13
    /\ Appended = <<15, 132, 243, 255, 255, 255>>

\* The fields of a ModRM byte and of a SIB byte
ModRM(b) == [mod |-> b \div 64, reg |-> (b \div 8) % 8, rm |-> b % 8]
SIB(b) == [scale |-> b \div 64, index |-> (b \div 8) % 8, base |-> b % 8]

\* C23 (as claimed): for every destination d and every base and offset
\* register b, o among RAX, RDX, RSI, RDI, emit_movzx emits
\* movzx d, byte [b + o*1]: 0F B6, a ModRM byte with mod 00, reg d and
\* rm 100 (a SIB byte follows), and a SIB byte with scale 1, index o, base b.
C23_MovzxEncoding ==
    (pc = "encoded" /\ asm_last.op = "emit_movzx") =>
        LET d == asm_last.args[1].a
            b == asm_last.args[2].a
            o == asm_last.args[2].b
        IN /\ Len(Appended) = 4
           /\ SubSeq(Appended, 1, 2) = <<15, 182>>
           /\ ModRM(Appended[3]) = [mod |-> 0, reg |-> d, rm |-> 4]
           /\ SIB(Appended[4]) = [scale |-> 0, index |-> o, base |-> b]

\* The length of an encoding from its parts: a REX.W prefix on the 64-bit
\* forms, one opcode byte (two behind 0F), a ModRM byte, a SIB byte for
\* [base + index], and the immediate
OperandSize(args) ==
    LET mem == \E k \in 1..Len(args) : args[k].kind = "MemoryByRegisterAndOffset"
    IN (IF args[1].kind = "MemoryByRegisterAndOffset" THEN 0 ELSE 1) + 1 + 1
           + (IF mem THEN 1 ELSE 0)
           + (CASE args[2].kind = "Immediate" -> 4
                [] args[2].kind = "Immediate8" -> 1
                [] OTHER -> 0)
EncodingSize(op, args) ==
    CASE op = "emit_movzx" -> 4
      [] op \in {"emit_mov", "emit_add", "emit_sub", "emit_compare"} -> OperandSize(args)
      [] op \in {"emit_push", "emit_pop", "emit_return"} -> 1
      [] op = "emit_syscall" -> 2
      [] op \in {"emit_jump_if_zero", "emit_jump_if_non_zero"} -> 6

\* C25: every emit_* call leaves the bytes emitted before it unchanged and
\* advances position() by the length of the encoding it emits;
\* patch_jump_target alone changes bytes already emitted (and not the
\* length), and clear alone makes the buffer shorter.
C25_AppendOnly ==
    pc = "encoded" =>
        LET before == asm_last.before
        IN CASE asm_last.op = "clear" -> code = <<>>
             [] asm_last.op = "patch_jump_target" -> Len(code) = Len(before)
             [] OTHER ->
                  /\ position(code) = Len(before) + EncodingSize(asm_last.op, asm_last.args)
                  /\ SubSeq(code, 1, Len(before)) = before

C25_Witness ==
    /\ pc = "encoded"
    /\ asm_last.op = "emit_mov"
    /\ asm_last.args = <<Register(RDX), Immediate(70000)>>
    /\ Len(asm_last.before) = 13
    /\ Appended = <<72, 199, 194, 112, 17, 1, 0>>

\* The source is balanced and has no , and the Intepreter has been built
RunsBalancedProgram ==
    /\ IsSome(interp_program)
    /\ Balanced(source)
    /\ \A j \in 1..Len(source) : source[j] # ","

\* C29: for every Program parsed from a balanced source without , the
\* instruction pointer of the interpreter stays in [0, Program length] in
\* every state, every jump lands on an index in [1, Program length], and
\* run returns exactly when the instruction pointer equals the length.
C29_InstructionPointerBounds ==
    /\ [](RunsBalancedProgram =>
             LET P == Unwrap(interp_program)
             IN /\ instruction_ptr \in 0..Len(P)
                /\ pc = "exit_ok" => instruction_ptr = Len(P)
                /\ \A k \in 0..(Len(P) - 1) :
                      At(P, k).op \in {"JmpForward", "JmpBack"} => At(P, k).n \in 1..Len(P))
    /\ [][(RunsBalancedProgram /\ pc = "run") =>
             LET P == Unwrap(interp_program)
             IN IF instruction_ptr = Len(P)
                THEN pc' = "exit_ok" /\ instruction_ptr' = instruction_ptr
                ELSE /\ pc' # "exit_ok"
                     /\ (At(P, instruction_ptr).op \in {"JmpForward", "JmpBack"}
                             /\ pc' = "run") => instruction_ptr' \in 1..Len(P)]_vars

C29_Witness ==
    /\ source = <<"[", "+", "]">>
    /\ pc = "exit_ok"
    /\ instruction_ptr = 3
    /\ steps = 1
    /\ Cell(memory, 0) = 0

\* C30: calling compile again on the same JitCompiler yields the buffer the
\* call before yielded (the buffer is cleared, not appended to), and
\* parse_program called again starts from an empty Program and an empty
\* stack whatever the call before left: it ends as that call ended.
C30_RerunIsStateless ==
    /\ (rerun.compiles >= 1 /\ CodeComplete) => code = Unwrap(rerun.code)
    /\ (rerun.parses >= 1 /\ pc = "parse" /\ pos = 0) =>
          (program = <<>> /\ forward_jumps = <<>>)
    /\ (rerun.parses >= 1 /\ pc = "compile" /\ rerun.compiles = 0) =>
          (rerun.error = None /\ program = Unwrap(rerun.parser).program
               /\ forward_jumps = Unwrap(rerun.parser).forward_jumps)
    /\ (rerun.parses >= 1 /\ pc = "exit_err" /\ jit_program = None) =>
          (error = rerun.error /\ TheParser = Unwrap(rerun.parser))

C30_Witness ==
    /\ rerun.parses = 1
    /\ rerun.compiles = 1
    /\ Unwrap(rerun.parser).forward_jumps = <<0>>
    /\ pc = "compiled"
    /\ Len(code) = 18
    /\ code = Unwrap(rerun.code)

====
